---- MODULE Spec2Model ----
(***************************************************************************)
(* Model of src/src/LinkedList/index.ts: class LinkedList<T>, a singly     *)
(* linked list with a head reference, a tail reference and a cached size.  *)
(*                                                                         *)
(* Nodes live in a heap (node id -> fields).  A field of a node, and the   *)
(* head reference, can hold the JavaScript value `undefined` as well as    *)
(* `null`: deleteNode deletes both fields of a node, and reading a deleted *)
(* field yields undefined.  The two are told apart because the code tests  *)
(* some references with `=== null` and others for truthiness.              *)
(***************************************************************************)
EXTENDS Integers, Sequences, FiniteSets, TLC

\* ---------------------------------------------------------------- bounds
MaxNodes == 4      \* node ids available in the heap
MaxVal == 1        \* element values are 0..MaxVal (0 is falsy in JavaScript)
MaxSize == 4       \* cap of the cached size counter
MaxInit == 3       \* longest array handed to the constructor

\* ------------------------------------------------------- values and refs
Null == -2         \* the value null
Undefined == -1    \* the value undefined (a deleted or missing property)

Nodes == 1..MaxNodes
Values == 0..MaxVal
Indexes == -1..(MaxNodes + 1)

\* type Node<T> = { next: Node<T> | null; value: T }
Node(value, next) == [value |-> value, next |-> next]

\* a node after deleteNode: both properties deleted
DeletedNode == Node(Undefined, Undefined)

\* JavaScript truthiness of a reference: an object is truthy, null and
\* undefined are falsy
Truthy(ref) == ref \in Nodes

\* the list object: private head, tail, size, and the heap its nodes live in
LinkedList(h, t, s, hp) == [head |-> h, tail |-> t, size |-> s, heap |-> hp]

EmptyHeap == [n \in Nodes |-> DeletedNode]

\* field initialisers: head = null, tail = null, size = 0
EmptyList == LinkedList(Null, Null, 0, EmptyHeap)

\* ------------------------------------------------------------ the heap
\* nodes reachable from ref by following next
RECURSIVE ChainFrom(_, _, _)
ChainFrom(heap, ref, fuel) ==
    IF ~Truthy(ref) \/ fuel = 0 THEN {}
    ELSE {ref} \cup ChainFrom(heap, heap[ref].next, fuel - 1)

\* nodes the list object can still reach: the garbage collector keeps these
Live(L) == ChainFrom(L.heap, L.head, MaxNodes) \cup ChainFrom(L.heap, L.tail, MaxNodes)

\* an object literal { value, next } allocates a node no reference leads to
CanAlloc(L) == Live(L) # Nodes
NewNode(L) == CHOOSE n \in Nodes \ Live(L) : \A m \in Nodes \ Live(L) : n <= m

\* the nodes met following next from ref, in order
RECURSIVE ChainSeq(_, _, _)
ChainSeq(heap, ref, fuel) ==
    IF ~Truthy(ref) \/ fuel = 0 THEN <<>>
    ELSE <<ref>> \o ChainSeq(heap, heap[ref].next, fuel - 1)

\* the live nodes in a fixed order: the chain of head, then what only tail reaches
LiveSeq(L) ==
    LET fromHead == ChainSeq(L.heap, L.head, MaxNodes)
        InHead(n) == n \notin ChainFrom(L.heap, L.head, MaxNodes)
    IN  fromHead \o SelectSeq(ChainSeq(L.heap, L.tail, MaxNodes), InHead)

\* garbage collection: a node nothing refers to is forgotten.  The address of
\* a node is not observable, so the live nodes are renamed 1, 2, ... in
\* LiveSeq order; two heaps of the same shape are then the same state.
Collect(L) ==
    LET live == LiveSeq(L)
        Renamed(ref) == IF Truthy(ref)
                        THEN CHOOSE k \in 1..Len(live) : live[k] = ref
                        ELSE ref
    IN  LinkedList(Renamed(L.head), Renamed(L.tail), L.size,
                   [k \in Nodes |->
                       IF k <= Len(live)
                       THEN Node(L.heap[live[k]].value, Renamed(L.heap[live[k]].next))
                       ELSE DeletedNode])

\* ------------------------------------------------------ private helpers
\* private deleteNode(node): delete node.next; delete node.value
deleteNode(heap, node) == [heap EXCEPT ![node] = DeletedNode]

\* private addToEnd(item)
addToEnd(L, item) ==
    LET n == NewNode(L) IN
    IF L.tail = Null
    THEN LinkedList(n, n, L.size + 1, [L.heap EXCEPT ![n] = Node(item, Null)])
    ELSE LinkedList(L.head, n, L.size + 1,
                    [L.heap EXCEPT ![L.tail].next = n, ![n] = Node(item, Null)])

\* addToFront with the slip of moving tail to the new node, as addToEnd does
addToFrontMovesTail(L, item) ==
    LET n == NewNode(L) IN
    IF L.tail = Null
    THEN LinkedList(n, n, L.size + 1, [L.heap EXCEPT ![n] = Node(item, Null)])
    ELSE LinkedList(n, n, L.size + 1, [L.heap EXCEPT ![n] = Node(item, L.head)])

\* private addToFront(item)
addToFront(L, item) ==
    LET n == NewNode(L) IN
    IF L.tail = Null
    THEN LinkedList(n, n, L.size + 1, [L.heap EXCEPT ![n] = Node(item, Null)])
    ELSE LinkedList(n, L.tail, L.size + 1, [L.heap EXCEPT ![n] = Node(item, L.head)])

\* the while loop of nodeAt: advance while currentNode && currentNode.next && i < index
RECURSIVE nodeAtLoop(_, _, _, _)
nodeAtLoop(heap, currentNode, i, index) ==
    IF Truthy(currentNode) /\ Truthy(heap[currentNode].next) /\ i < index
    THEN nodeAtLoop(heap, heap[currentNode].next, i + 1, index)
    ELSE [node |-> currentNode, i |-> i]

\* private nodeAt(index): [throws |-> TRUE] when it reads a property of
\* undefined (a TypeError), else the reference it returns
nodeAt(L, index) ==
    IF index < 0 THEN [throws |-> FALSE, node |-> Null]
    ELSE IF index = 0 THEN [throws |-> FALSE, node |-> L.head]
    ELSE IF L.head = Null THEN [throws |-> FALSE, node |-> Null]
    ELSE IF L.head = Undefined THEN [throws |-> TRUE, node |-> Null]
    ELSE IF L.heap[L.head].next = Null THEN [throws |-> FALSE, node |-> Null]
    ELSE LET r == nodeAtLoop(L.heap, L.head, 1, index) IN
         IF r.i < index THEN [throws |-> FALSE, node |-> Null]
         ELSE [throws |-> FALSE, node |-> r.node]

\* ------------------------------------------------------------ observers
\* toArray(): the values met walking next from head while the node is truthy
RECURSIVE toArrayFrom(_, _, _)
toArrayFrom(heap, node, fuel) ==
    IF ~Truthy(node) \/ fuel = 0 THEN <<>>
    ELSE <<heap[node].value>> \o toArrayFrom(heap, heap[node].next, fuel - 1)

toArray(L) == toArrayFrom(L.heap, L.head, MaxNodes)

\* get length()
length(L) == L.size

\* fist(): this.head?.value ?? null
fist(L) ==
    IF ~Truthy(L.head) THEN Null
    ELSE IF L.heap[L.head].value = Undefined THEN Null ELSE L.heap[L.head].value

\* last(): this.tail?.value ?? null
last(L) ==
    IF ~Truthy(L.tail) THEN Null
    ELSE IF L.heap[L.tail].value = Undefined THEN Null ELSE L.heap[L.tail].value

\* ----------------------------------------------------- public operations
\* What a call hands back: kind "self" (returns this), "value" (returns an
\* element), "Error" (throw Error(...)) or "TypeError" (a property of null or
\* undefined was read).  A call that throws before its first assignment
\* leaves the list as it was.
Returns(L, kind, value) == [list |-> Collect(L), kind |-> kind, value |-> value]

\* push(value)
push(L, value) == Returns(addToEnd(L, value), "self", Undefined)

\* unshift(value)
unshift(L, value) == Returns(addToFront(L, value), "self", Undefined)

\* pop()
pop(L) ==
    IF L.head = Null THEN Returns(L, "Error", Undefined)
    ELSE LET n == nodeAt(L, L.size - 2) IN
         IF n.throws THEN Returns(L, "TypeError", Undefined)
         ELSE IF n.node = Null
         THEN IF ~Truthy(L.head) THEN Returns(L, "TypeError", Undefined)
              ELSE Returns(LinkedList(Null, Null, L.size - 1, L.heap),
                           "value", L.heap[L.head].value)
         ELSE IF ~Truthy(L.tail) \/ ~Truthy(n.node) THEN Returns(L, "TypeError", Undefined)
         ELSE Returns(LinkedList(L.head, n.node, L.size - 1,
                                 [L.heap EXCEPT ![n.node].next = Null]),
                      "value", L.heap[L.tail].value)

\* shift()
shift(L) ==
    IF L.head = Null THEN Returns(L, "Error", Undefined)
    ELSE IF ~Truthy(L.head) THEN Returns(L, "TypeError", Undefined)
    ELSE IF Truthy(L.heap[L.head].next)
    THEN Returns(LinkedList(Null, Null, L.size - 1, L.heap),
                 "value", L.heap[L.head].value)
    ELSE Returns(LinkedList(L.heap[L.head].next, L.tail, L.size - 1, L.heap),
                 "value", L.heap[L.head].value)

\* addAfter with the slip of linking the new node back to its anchor instead of
\* to the anchor's successor
addAfterLinksBack(L, index, value) ==
    LET prevNode == nodeAt(L, index) IN
    IF prevNode.throws THEN Returns(L, "TypeError", Undefined)
    ELSE IF prevNode.node = Null THEN Returns(L, "Error", Undefined)
    ELSE IF ~Truthy(prevNode.node) THEN Returns(L, "TypeError", Undefined)
    ELSE LET newNode == NewNode(L) IN
         Returns(LinkedList(L.head, L.tail, L.size + 1,
                            [L.heap EXCEPT ![newNode] = Node(value, prevNode.node),
                                           ![prevNode.node].next = newNode]),
                 "self", Undefined)

\* addAfter(index, value)
addAfter(L, index, value) ==
    LET prevNode == nodeAt(L, index) IN
    IF prevNode.throws THEN Returns(L, "TypeError", Undefined)
    ELSE IF prevNode.node = Null THEN Returns(L, "Error", Undefined)
    ELSE IF ~Truthy(prevNode.node) THEN Returns(L, "TypeError", Undefined)
    ELSE LET newNode == NewNode(L) IN
         Returns(LinkedList(L.head, L.tail, L.size + 1,
                            [L.heap EXCEPT ![newNode] = Node(value, L.heap[prevNode.node].next),
                                           ![prevNode.node].next = newNode]),
                 "self", Undefined)

\* removeAt(index)
removeAt(L, index) ==
    LET node == nodeAt(L, index - 1) IN
    IF node.throws THEN Returns(L, "TypeError", Undefined)
    ELSE IF node.node = Null THEN Returns(L, "Error", Undefined)
    ELSE IF ~Truthy(node.node) THEN Returns(L, "TypeError", Undefined)
    ELSE IF L.heap[node.node].next = Null THEN Returns(L, "Error", Undefined)
    ELSE IF ~Truthy(L.heap[node.node].next) THEN Returns(L, "TypeError", Undefined)
    ELSE LET temp == L.heap[node.node].next
             nextNode == L.heap[temp].next IN
         Returns(LinkedList(L.head, L.tail, L.size - 1,
                            deleteNode([L.heap EXCEPT ![node.node].next = nextNode], temp)),
                 "self", Undefined)

\* the while loop of at: advance while i < index && node
RECURSIVE atLoop(_, _, _, _)
atLoop(heap, node, i, index) ==
    IF i < index /\ Truthy(node) THEN atLoop(heap, heap[node].next, i + 1, index)
    ELSE node

\* at(index)
at(L, index) ==
    LET node == atLoop(L.heap, L.head, 0, index) IN
    IF node = Null THEN Returns(L, "Error", Undefined)
    ELSE IF ~Truthy(node) THEN Returns(L, "TypeError", Undefined)
    ELSE Returns(L, "value", L.heap[node].value)

\* the while loop of clear: deleteNode on every node of the chain
RECURSIVE clearLoop(_, _, _)
clearLoop(heap, node, fuel) ==
    IF ~Truthy(node) \/ fuel = 0 THEN heap
    ELSE clearLoop(deleteNode(heap, node), heap[node].next, fuel - 1)

\* clear()
clear(L) ==
    Returns(LinkedList(L.head, L.tail, 0, clearLoop(L.heap, L.head, MaxNodes)),
            "self", Undefined)

\* the while loop of search: advance while node && node.value !== value
RECURSIVE searchLoop(_, _, _, _, _)
searchLoop(heap, node, index, value, fuel) ==
    IF ~Truthy(node) \/ fuel = 0 \/ heap[node].value = value THEN index
    ELSE searchLoop(heap, heap[node].next, index + 1, value, fuel - 1)

\* search(value)
search(L, value) == Returns(L, "value", searchLoop(L.heap, L.head, 0, value, MaxNodes))

\* the callbacks handed to map: cb(element, index)
Callbacks == {"element", "index", "isZero"}

Apply(cb, element, index) ==
    IF cb = "element" THEN element
    ELSE IF cb = "index" THEN index
    ELSE IF element = 0 THEN 1 ELSE 0

\* the while loop of map: list.push(cb(node.value, i)) for every node
RECURSIVE mapLoop(_, _, _, _, _, _)
mapLoop(heap, node, i, cb, list, fuel) ==
    IF ~Truthy(node) \/ fuel = 0 THEN list
    ELSE mapLoop(heap, heap[node].next, i + 1, cb,
                 push(list, Apply(cb, heap[node].value, i)).list, fuel - 1)

\* map(cb): the new list it returns; this is only read
map(L, cb) == mapLoop(L.heap, L.head, 0, cb, EmptyList, MaxNodes)

\* constructor(value?: T | T[]) with a single value
constructorValue(value) ==
    IF value = 0 THEN EmptyList
    ELSE LET n == NewNode(EmptyList) IN
         LinkedList(n, n, 1, [EmptyHeap EXCEPT ![n] = Node(value, Null)])

\* constructor(value?: T | T[]) with an array: value.forEach(addToEnd)
RECURSIVE constructorArray(_)
constructorArray(items) ==
    IF items = <<>> THEN EmptyList
    ELSE addToEnd(constructorArray(SubSeq(items, 1, Len(items) - 1)), items[Len(items)])

\* ------------------------------------------------------------- the state
VARIABLES head, tail, size, heap, call, result

vars == <<head, tail, size, heap, call, result>>

\* the list object in the current state
This == LinkedList(head, tail, size, heap)

\* arrays of at most n element values
ArraysUpTo(n) == UNION {[1..k -> Values] : k \in 0..n}

\* the call made: the method's name and its arguments (Undefined when absent)
Call(name, index, value) == [name |-> name, index |-> index, value |-> value]

\* the list becomes r.list and result records what the call handed back
Returned(r) ==
    /\ head' = r.list.head
    /\ tail' = r.list.tail
    /\ size' = r.list.size
    /\ heap' = r.list.heap
    /\ result' = [kind |-> r.kind, value |-> r.value]

\* new LinkedList(), new LinkedList(v), new LinkedList([...]): the list built,
\* and the single value handed over (Undefined when there is none)
Constructed ==
    {[list |-> EmptyList, value |-> Undefined]}
        \cup {[list |-> constructorValue(v), value |-> v] : v \in Values}
        \cup {[list |-> constructorArray(a), value |-> Undefined] : a \in ArraysUpTo(MaxInit)}

Init ==
    \E c \in Constructed :
        /\ head = c.list.head
        /\ tail = c.list.tail
        /\ size = c.list.size
        /\ heap = c.list.heap
        /\ call = Call("constructor", Undefined, c.value)
        /\ result = [kind |-> "self", value |-> Undefined]

Push ==
    \E v \in Values :
        /\ CanAlloc(This) /\ size < MaxSize
        /\ Returned(push(This, v))
        /\ call' = Call("push", Undefined, v)

Unshift ==
    \E v \in Values :
        /\ CanAlloc(This) /\ size < MaxSize
        /\ Returned(unshift(This, v))
        /\ call' = Call("unshift", Undefined, v)

Pop ==
    /\ Returned(pop(This))
    /\ call' = Call("pop", Undefined, Undefined)

Shift ==
    /\ Returned(shift(This))
    /\ call' = Call("shift", Undefined, Undefined)

AddAfter ==
    \E i \in Indexes, v \in Values :
        /\ CanAlloc(This) /\ size < MaxSize
        /\ Returned(addAfter(This, i, v))
        /\ call' = Call("addAfter", i, v)

RemoveAt ==
    \E i \in Indexes :
        /\ Returned(removeAt(This, i))
        /\ call' = Call("removeAt", i, Undefined)

At ==
    \E i \in Indexes :
        /\ Returned(at(This, i))
        /\ call' = Call("at", i, Undefined)

Clear ==
    /\ Returned(clear(This))
    /\ call' = Call("clear", Undefined, Undefined)

Search ==
    \E v \in Values :
        /\ Returned(search(This, v))
        /\ call' = Call("search", Undefined, v)

Next ==
    \/ Push
    \/ Unshift
    \/ Pop
    \/ Shift
    \/ AddAfter
    \/ RemoveAt
    \/ At
    \/ Clear
    \/ Search

Spec == Init /\ [][Next]_vars

TypeOK ==
    /\ head \in Nodes \cup {Null, Undefined}
    /\ tail \in Nodes \cup {Null}
    /\ size \in -1..MaxSize
    /\ heap \in [Nodes -> [value : Values \cup {Undefined},
                           next : Nodes \cup {Null, Undefined}]]
    /\ This = Collect(This)

\* ------------------------------------------------------------ properties
\* the list object in the state a step leads to
ThisNext == LinkedList(head', tail', size', heap')

\* the step leaves the list object as it was
ListUnchanged == UNCHANGED <<head, tail, size, heap>>

\* the step is a call of the named method
Calls(name) == call'.name = name

\* seq without its element at 0-based position i
Without(seq, i) == SubSeq(seq, 1, i) \o SubSeq(seq, i + 2, Len(seq))

\* seq with v put in right after its element at 0-based position i
InsertedAfter(seq, i, v) == SubSeq(seq, 1, i + 1) \o <<v>> \o SubSeq(seq, i + 2, Len(seq))

\* C1: in every reachable state the cached size equals the number of nodes
\* reachable from head by following next (length == toArray().length).
C1_SizeIsChainLength == size = Len(toArray(This))

\* C2: in every reachable state size is 0 exactly when head is absent, and
\* head is absent exactly when tail is absent.
C2_EmptyIffNoHeadIffNoTail ==
    /\ (size = 0) <=> ~Truthy(head)
    /\ ~Truthy(head) <=> ~Truthy(tail)

\* C3: in every reachable state with size > 0, tail is the node reached from
\* head after size - 1 steps of next, and that node has no successor.
C3_TailIsLastOfChain ==
    size > 0 =>
        LET chain == ChainSeq(heap, head, MaxNodes) IN
        /\ Len(chain) >= size
        /\ chain[size] = tail
        /\ ~Truthy(heap[tail].next)

\* C4: push(value) never throws; it leaves toArray() equal to the previous
\* toArray() followed by value, makes last() return value and adds exactly 1
\* to size.
C4_PushAppends ==
    [][Calls("push") =>
        /\ result'.kind = "self"
        /\ toArray(ThisNext) = Append(toArray(This), call'.value)
        /\ last(ThisNext) = call'.value
        /\ size' = size + 1]_vars

\* C5: shift() on a non-empty list returns the first element and takes exactly
\* 1 from size; if the first node has a successor the remaining elements keep
\* their order and last() is unchanged, otherwise head and tail become absent.
C5_ShiftRemovesFirst ==
    [][(Calls("shift") /\ toArray(This) # <<>>) =>
        /\ result'.kind = "value"
        /\ result'.value = Head(toArray(This))
        /\ size' = size - 1
        /\ toArray(ThisNext) = Tail(toArray(This))
        /\ IF Len(toArray(This)) > 1
           THEN last(ThisNext) = last(This)
           ELSE ~Truthy(head') /\ ~Truthy(tail')]_vars

\* C6: pop() on a list of n >= 1 elements returns the last element and leaves
\* the first n - 1 elements in order, the former predecessor of the last
\* element being the new last, with size n - 1.
C6_PopRemovesLast ==
    [][(Calls("pop") /\ toArray(This) # <<>>) =>
        LET before == toArray(This)
            n == Len(before) IN
        /\ result'.kind = "value"
        /\ result'.value = before[n]
        /\ toArray(ThisNext) = SubSeq(before, 1, n - 1)
        /\ last(ThisNext) = IF n > 1 THEN before[n - 1] ELSE Null
        /\ size' = n - 1]_vars

\* C7: addAfter(index, value) with 0 <= index < size puts value right after
\* the element at position index: value is then at position index + 1, the
\* earlier elements keep their positions, the later ones move by one, and
\* size grows by exactly 1.
C7_AddAfterSplices ==
    [][(Calls("addAfter") /\ 0 <= call'.index /\ call'.index < size) =>
        /\ result'.kind = "self"
        /\ call'.index < Len(toArray(This))
        /\ toArray(ThisNext) = InsertedAfter(toArray(This), call'.index, call'.value)
        /\ size' = size + 1]_vars

\* C8: removeAt(index) succeeds for every index in [0, size), index 0
\* included, and removes exactly the element at that position: the others
\* keep their order, last() is the predecessor's value when the last element
\* was removed, and size drops by exactly 1.
C8_RemoveAtRemoves ==
    [][(Calls("removeAt") /\ 0 <= call'.index /\ call'.index < size) =>
        LET before == toArray(This)
            after == Without(before, call'.index) IN
        /\ result'.kind = "self"
        /\ call'.index < Len(before)
        /\ toArray(ThisNext) = after
        /\ last(ThisNext) = IF after = <<>> THEN Null ELSE after[Len(after)]
        /\ size' = size - 1]_vars

\* C9: at(index) returns the element at position index of toArray() for every
\* index in [0, size), throws its Error for every negative index and every
\* index >= size, and never changes the list.
C9_AtReadsOrThrows ==
    [][Calls("at") =>
        /\ ListUnchanged
        /\ IF 0 <= call'.index /\ call'.index < size
           THEN /\ result'.kind = "value"
                /\ call'.index < Len(toArray(This))
                /\ result'.value = toArray(This)[call'.index + 1]
           ELSE result'.kind = "Error"]_vars

\* C10: addAfter(index, value) and removeAt(index) with a negative index or an
\* index >= size throw their Error and leave the list unchanged.
C10_BadIndexThrows ==
    [][((Calls("addAfter") \/ Calls("removeAt"))
          /\ (call'.index < 0 \/ call'.index >= size)) =>
        /\ result'.kind = "Error"
        /\ ListUnchanged
        /\ toArray(ThisNext) = toArray(This)]_vars

\* C11: whenever size is 0, pop() and shift() throw their Error and leave
\* length and toArray() as they were.
C11_EmptyPopShiftThrow ==
    [][((Calls("pop") \/ Calls("shift")) /\ size = 0) =>
        /\ result'.kind = "Error"
        /\ length(ThisNext) = length(This)
        /\ toArray(ThisNext) = toArray(This)]_vars

\* C12: clear() leaves the list in the state of a newly constructed empty
\* list: head and tail absent, size 0, toArray() empty, fist() and last()
\* returning null.
C12_ClearResets ==
    [][Calls("clear") =>
        /\ ~Truthy(head') /\ ~Truthy(tail')
        /\ size' = 0
        /\ toArray(ThisNext) = <<>>
        /\ fist(ThisNext) = Null /\ last(ThisNext) = Null
        /\ ThisNext = EmptyList]_vars

\* C13: in any reachable state, push(v) immediately followed by pop() returns
\* v and leaves length and toArray() as they were before the push.
C13_PushThenPop ==
    \A v \in Values :
        CanAlloc(This) =>
            LET popped == pop(push(This, v).list) IN
            /\ popped.kind = "value"
            /\ popped.value = v
            /\ length(popped.list) = length(This)
            /\ toArray(popped.list) = toArray(This)

\* C14: in any reachable state, unshift(v) immediately followed by shift()
\* returns v and leaves length and toArray() as they were before the unshift.
C14_UnshiftThenShift ==
    \A v \in Values :
        CanAlloc(This) =>
            LET shifted == shift(unshift(This, v).list) IN
            /\ shifted.kind = "value"
            /\ shifted.value = v
            /\ length(shifted.list) = length(This)
            /\ toArray(shifted.list) = toArray(This)

\* ---------------------------------------------- building a list from empty
\* new LinkedList() followed by push and unshift calls, and calls that only read
InitBuild ==
    /\ head = EmptyList.head
    /\ tail = EmptyList.tail
    /\ size = EmptyList.size
    /\ heap = EmptyList.heap
    /\ call = Call("constructor", Undefined, Undefined)
    /\ result = [kind |-> "self", value |-> Undefined]

NextBuild ==
    \/ Push
    \/ Unshift
    \/ At
    \/ Search

SpecBuild == InitBuild /\ [][NextBuild]_vars

\* -------------------------------------------------- the calls that mutate
\* any constructor followed by calls of the mutating methods only: at and
\* search leave the list object as it is, so the lists reached are those of Spec
NextMutate ==
    \/ Push
    \/ Unshift
    \/ Pop
    \/ Shift
    \/ AddAfter
    \/ RemoveAt
    \/ Clear

SpecMutate == Init /\ [][NextMutate]_vars

\* C15: for every sequence of push and unshift calls on an initially empty
\* list, toArray() is the sequence obtained by adding each pushed value at the
\* end and each unshifted value at the front, length is the number of
\* insertions, and unshift on a non-empty list leaves last() unchanged.
\* Stated step by step: the empty list maps to the empty sequence, each push
\* appends and each unshift prepends to the sequence of the state before, and
\* length stays the length of the sequence.
C15_BuildMatchesSequence ==
    /\ toArray(This) = <<>> /\ length(This) = 0
    /\ [][/\ Calls("push") =>
                /\ toArray(ThisNext) = Append(toArray(This), call'.value)
                /\ last(ThisNext) = call'.value
          /\ Calls("unshift") =>
                /\ toArray(ThisNext) = <<call'.value>> \o toArray(This)
                /\ toArray(This) # <<>> => last(ThisNext) = last(This)
          /\ (Calls("push") \/ Calls("unshift")) => length(ThisNext) = length(This) + 1
          /\ (Calls("at") \/ Calls("search")) => ListUnchanged
          /\ length(ThisNext) = Len(toArray(ThisNext))]_vars

\* an unshift has put a value in front of at least two others, the last of
\* which differs from it
C15_Witness ==
    /\ call.name = "unshift"
    /\ Len(toArray(This)) >= 3
    /\ toArray(This)[1] = call.value
    /\ last(This) # call.value

\* the values of a sequence
Elements(seq) == {seq[i] : i \in 1..Len(seq)}

\* 0-based position of the first element of seq equal to v (v is in seq)
FirstPosition(seq, v) ==
    (CHOOSE i \in 1..Len(seq) : seq[i] = v /\ \A j \in 1..(i - 1) : seq[j] # v) - 1

\* C16: search(v) returns the 0-based position of the first element equal to
\* v when v is in the list, and length (the cached size) when it is not.
C16_SearchFindsOrLength ==
    [][Calls("search") =>
        /\ result'.kind = "value"
        /\ result'.value = IF call'.value \in Elements(toArray(This))
                           THEN FirstPosition(toArray(This), call'.value)
                           ELSE length(This)]_vars

\* C17: map(cb) returns a new list of the length of the source whose element
\* at every index i in [0, length) is cb(element of the source at i, i).
\* (The new list has nodes and fields of its own, and map only reads the
\* source, so neither list changes with the other.)
C17_MapTransforms ==
    \A cb \in Callbacks :
        LET mapped == map(This, cb) IN
        /\ length(mapped) = length(This)
        /\ \A i \in 0..(length(This) - 1) :
              /\ at(This, i).kind = "value"
              /\ at(mapped, i).kind = "value"
              /\ at(mapped, i).value = Apply(cb, at(This, i).value, i)

\* C18: new LinkedList(v) yields, for every value v (0 included), a list of
\* exactly one node holding v: size 1, fist() = last() = v, toArray() = [v].
C18_ConstructorSingleValue ==
    (call.name = "constructor" /\ call.value \in Values) =>
        /\ size = 1
        /\ fist(This) = call.value
        /\ last(This) = call.value
        /\ toArray(This) = <<call.value>>

\* C19: in every reachable state the chain that starts at head is acyclic: no
\* node is met twice, and the walk along next ends at a reference that is no
\* node after at most as many steps as there are nodes, so toArray, at,
\* search, map and iteration terminate.
C19_ChainAcyclic ==
    LET chain == ChainSeq(heap, head, MaxNodes) IN
    /\ \A i, j \in 1..Len(chain) : chain[i] = chain[j] => i = j
    /\ chain # <<>> => ~Truthy(heap[chain[Len(chain)]].next)

\* addAfter has spliced a node into a chain that now has at least three nodes
C19_Witness ==
    /\ call.name = "addAfter"
    /\ result.kind = "self"
    /\ Len(ChainSeq(heap, head, MaxNodes)) >= 3

\* C20: no observer yields the erased contents of a released node or a value
\* that has been removed: every element of toArray() is a value, a non-null
\* fist() is the first and a non-null last() the last element of the list, and
\* every value returned by a successful pop, shift or at is a value (never
\* undefined).
C20_OnlyLiveValues ==
    /\ \A i \in 1..Len(toArray(This)) : toArray(This)[i] \in Values
    /\ fist(This) # Null => (toArray(This) # <<>> /\ fist(This) = toArray(This)[1])
    /\ last(This) # Null =>
          (toArray(This) # <<>> /\ last(This) = toArray(This)[Len(toArray(This))])
    /\ (call.name \in {"pop", "shift", "at"} /\ result.kind = "value") =>
          result.value \in Values

====
